---- MODULE Spec2Model ----
(***************************************************************************)
(* A model of the notes server of src/index.js: one HTTP request handler   *)
(* over a single JSON file (notes.json).  Every handler reads the whole    *)
(* file, changes a request-local copy and writes the whole file back.      *)
(* A request suspends only at its await points (body end, file read, file  *)
(* write), so each action below is one run-to-completion piece of the      *)
(* handler between two await points.                                       *)
(***************************************************************************)
EXTENDS Integers, Sequences, FiniteSets, TLC

(***************************************************************************)
(* Bounds of the model.                                                    *)
(***************************************************************************)
\* Total number of requests that arrive in one behaviour.
MaxRequests == 3
\* Largest value of the millisecond clock (Date.now()); it starts at 1.
MaxClock == 2

(***************************************************************************)
(* JavaScript values.  A value carries its type, as typeof and === see it. *)
(***************************************************************************)
Num(n) == [num |-> n]
Str(s) == [str |-> s]
Undefined == [undef |-> TRUE]
IsNumber(v) == DOMAIN v = {"num"}
IsString(v) == DOMAIN v = {"str"}

\* The object {} .
EmptyObj == [k \in {} |-> Undefined]
\* obj.key : undefined when the object has no such property.
Get(obj, key) == IF key \in DOMAIN obj THEN obj[key] ELSE Undefined

\* A slip: notes[idx] = data, the body in place of the merged note.
SpreadReplace(a, b) == b
\* { ...a, ...b } : every property of a, overwritten or extended by b's.
Spread(a, b) ==
    [k \in DOMAIN a \cup DOMAIN b |-> IF k \in DOMAIN b THEN b[k] ELSE a[k]]

(***************************************************************************)
(* JSON text of an array of objects: one set of <<key, value>> members per *)
(* object.  JSON.stringify leaves out the properties whose value is        *)
(* undefined; JSON.parse builds the objects back from the members.         *)
(***************************************************************************)
StringifyObj(o) == {<<k, o[k]>> : k \in {f \in DOMAIN o : o[f] # Undefined}}
JSONStringify(arr) == [i \in 1..Len(arr) |-> StringifyObj(arr[i])]
ParseObj(ms) ==
    [k \in {m[1] : m \in ms} |-> (CHOOSE m \in ms : m[1] = k)[2]]
\* A slip: the parsed array handed back newest first.
JSONParseNewestFirst(text) ==
    [i \in 1..Len(text) |-> ParseObj(text[Len(text) + 1 - i])]
JSONParseArray(text) == [i \in 1..Len(text) |-> ParseObj(text[i])]

(***************************************************************************)
(* Request bodies.  A body is a text in one of two syntaxes; fields are    *)
(* the members (JSON) or the name=value pairs (urlencoded) it spells.      *)
(***************************************************************************)
JsonBody(fields) == [fmt |-> "json", fields |-> fields]
FormBody(fields) == [fmt |-> "form", fields |-> fields]
\* The empty body "".
NoBody == FormBody(EmptyObj)

\* A slip: try { JSON.parse(body) } catch { {} }, a parse that never fails.
JSONParseOrEmpty(body) ==
    [ok |-> TRUE, val |-> IF body.fmt = "json" THEN body.fields ELSE EmptyObj]

\* JSON.parse(body): a SyntaxError unless the text is JSON.
JSONParseBody(body) ==
    IF body.fmt = "json" THEN [ok |-> TRUE, val |-> body.fields]
    ELSE [ok |-> FALSE, val |-> EmptyObj]

\* querystring.parse(body): never throws.  A text without "=" or "&" (a JSON
\* text of the bodies used here) is one name with the empty string as value.
QueryStringParse(body) ==
    IF body.fmt = "form" THEN body.fields
    ELSE [k \in {"<raw>"} |-> Str("")]

(***************************************************************************)
(* Paths.  A pathname is modelled as pathname.split('/'): the sequence of  *)
(* its segments, the first of which is the empty text before the leading   *)
(* slash.  A segment is a sequence of tokens: a decimal digit, another     *)
(* character, or one of the route words taken as a unit.                   *)
(***************************************************************************)
Digits == {"0", "1", "2", "3", "4", "5", "6", "7", "8", "9"}
DigitVal(c) ==
    CASE c = "0" -> 0 [] c = "1" -> 1 [] c = "2" -> 2 [] c = "3" -> 3
      [] c = "4" -> 4 [] c = "5" -> 5 [] c = "6" -> 6 [] c = "7" -> 7
      [] c = "8" -> 8 [] c = "9" -> 9

\* The regular expression \d+ against a whole segment.
IsDigits(seg) == Len(seg) >= 1 /\ \A i \in 1..Len(seg) : seg[i] \in Digits

\* Number(text) for a text of decimal digits.
RECURSIVE ToNumber(_)
ToNumber(seg) ==
    IF seg = <<>> THEN 0
    ELSE ToNumber(SubSeq(seg, 1, Len(seg) - 1)) * 10 + DigitVal(seg[Len(seg)])

\* pathname.startsWith('/api/notes')
StartsWithApiNotes(path) ==
    /\ Len(path) >= 3
    /\ path[1] = <<>>
    /\ path[2] = <<"api">>
    /\ Len(path[3]) >= 1
    /\ path[3][1] = "notes"

\* pathname === '/api/notes'
IsApiNotes(path) == path = << <<>>, <<"api">>, <<"notes">> >>
\* /^\/api\/notes\/\d+$/
MatchApiId(path) ==
    /\ Len(path) = 4
    /\ SubSeq(path, 1, 3) = << <<>>, <<"api">>, <<"notes">> >>
    /\ IsDigits(path[4])
\* pathname === '/'
IsRoot(path) == path = << <<>>, <<>> >>
\* pathname === '/notes/new'
IsNotesNew(path) == path = << <<>>, <<"notes">>, <<"new">> >>
\* A slip: /^\/notes\/\d+/ without the closing anchor.
MatchWebIdUnanchored(path) ==
    /\ Len(path) >= 3
    /\ SubSeq(path, 1, 2) = << <<>>, <<"notes">> >>
    /\ Len(path[3]) >= 1
    /\ path[3][1] \in Digits
\* /^\/notes\/\d+$/
MatchWebId(path) ==
    /\ Len(path) = 3
    /\ SubSeq(path, 1, 2) = << <<>>, <<"notes">> >>
    /\ IsDigits(path[3])
\* /^\/notes\/\d+\/edit$/
MatchWebEdit(path) ==
    /\ Len(path) = 4
    /\ SubSeq(path, 1, 2) = << <<>>, <<"notes">> >>
    /\ IsDigits(path[3])
    /\ path[4] = <<"edit">>
\* /^\/notes\/\d+\/delete$/
MatchWebDelete(path) ==
    /\ Len(path) = 4
    /\ SubSeq(path, 1, 2) = << <<>>, <<"notes">> >>
    /\ IsDigits(path[3])
    /\ path[4] = <<"delete">>

\* A slip: the web delete route without its req.method === 'POST' test.
RouteDeleteAnyMethod(method, path) ==
    CASE StartsWithApiNotes(path) /\ method = "GET" /\ IsApiNotes(path) -> "apiList"
      [] StartsWithApiNotes(path) /\ method = "GET" /\ MatchApiId(path) -> "apiGet"
      [] StartsWithApiNotes(path) /\ method = "POST" /\ IsApiNotes(path) -> "apiCreate"
      [] StartsWithApiNotes(path) /\ method = "PUT" /\ MatchApiId(path) -> "apiPut"
      [] StartsWithApiNotes(path) /\ method = "DELETE" /\ MatchApiId(path) -> "apiDelete"
      [] method = "GET" /\ IsRoot(path) -> "webList"
      [] method = "GET" /\ IsNotesNew(path) -> "webNewForm"
      [] method = "POST" /\ IsNotesNew(path) -> "webCreate"
      [] method = "GET" /\ MatchWebId(path) -> "webView"
      [] method = "GET" /\ MatchWebEdit(path) -> "webEditForm"
      [] method = "POST" /\ MatchWebEdit(path) -> "webEdit"
      [] MatchWebDelete(path) -> "webDelete"
      [] OTHER -> "notFound"

\* The chain of if statements of the request handler, first match first.
\* A path under the /api/notes prefix that matches no API route leaves the
\* API block and is tried against the web routes.
Route(method, path) ==
    CASE StartsWithApiNotes(path) /\ method = "GET" /\ IsApiNotes(path) -> "apiList"
      [] StartsWithApiNotes(path) /\ method = "GET" /\ MatchApiId(path) -> "apiGet"
      [] StartsWithApiNotes(path) /\ method = "POST" /\ IsApiNotes(path) -> "apiCreate"
      [] StartsWithApiNotes(path) /\ method = "PUT" /\ MatchApiId(path) -> "apiPut"
      [] StartsWithApiNotes(path) /\ method = "DELETE" /\ MatchApiId(path) -> "apiDelete"
      [] method = "GET" /\ IsRoot(path) -> "webList"
      [] method = "GET" /\ IsNotesNew(path) -> "webNewForm"
      [] method = "POST" /\ IsNotesNew(path) -> "webCreate"
      [] method = "GET" /\ MatchWebId(path) -> "webView"
      [] method = "GET" /\ MatchWebEdit(path) -> "webEditForm"
      [] method = "POST" /\ MatchWebEdit(path) -> "webEdit"
      [] method = "POST" /\ MatchWebDelete(path) -> "webDelete"
      [] OTHER -> "notFound"

\* const id = Number(pathname.split('/')[3]) on the API routes and
\* Number(pathname.split('/')[2]) on the web routes.
ApiRoutes == {"apiList", "apiGet", "apiCreate", "apiPut", "apiDelete"}
PathId(route, path) ==
    IF route \in ApiRoutes THEN Num(ToNumber(path[4])) ELSE Num(ToNumber(path[3]))

(***************************************************************************)
(* Array operations of the handlers.  Indices are 1-based here, 0 stands   *)
(* for findIndex's -1.                                                     *)
(***************************************************************************)
\* A slip: n.id = id for n.id === id, an assignment that is truthy for the
\* first note.
FindIndexAssign(ns, id) == IF Len(ns) >= 1 /\ id # Num(0) THEN 1 ELSE 0
\* notes.findIndex(n => n.id === id)
FindIndex(ns, id) ==
    IF \E i \in 1..Len(ns) : Get(ns[i], "id") = id
    THEN CHOOSE i \in 1..Len(ns) :
            /\ Get(ns[i], "id") = id
            /\ \A j \in 1..(i - 1) : Get(ns[j], "id") # id
    ELSE 0

\* notes.find(n => n.id === id): the note in a one-element sequence, or
\* the empty sequence for undefined.
Find(ns, id) == IF FindIndex(ns, id) = 0 THEN <<>> ELSE <<ns[FindIndex(ns, id)]>>

\* A slip: notes.unshift(note).
Unshift(ns, note) == <<note>> \o ns
\* notes.push(note)
Push(ns, note) == Append(ns, note)

\* A slip: notes.splice(idx, 2), which removes the next element as well.
SpliceTwo(ns, idx) == SubSeq(ns, 1, idx - 1) \o SubSeq(ns, idx + 2, Len(ns))
\* A slip: notes.splice(idx), which removes every element from idx on.
SpliceToEnd(ns, idx) == SubSeq(ns, 1, idx - 1)
\* notes.splice(idx, 1)
Splice(ns, idx) == SubSeq(ns, 1, idx - 1) \o SubSeq(ns, idx + 1, Len(ns))

\* notes[idx] = { ...notes[idx], ...data }
MergeAt(ns, idx, d) == [ns EXCEPT ![idx] = Spread(ns[idx], d)]

\* { id: Date.now(), title: data.title, content: data.content }
NewNote(now, d) ==
    [id |-> Num(now), title |-> Get(d, "title"), content |-> Get(d, "content")]

(***************************************************************************)
(* What each mutating route makes of the notes it read.  The API and the   *)
(* web handlers are separate copies of the same statements.                *)
(***************************************************************************)
\* POST /api/notes: const note = {...}; notes.push(note)
ApiCreate(ns, now, d) == Push(ns, NewNote(now, d))
\* POST /notes/new: const note = {...}; notes.push(note)
WebCreate(ns, now, d) == Push(ns, NewNote(now, d))
\* PUT /api/notes/:id: notes[idx] = { ...notes[idx], ...data }
ApiPut(ns, idx, d) == MergeAt(ns, idx, d)
\* A slip: notes[idx] = { id, title: data.title, content: data.content }.
WebEditFields(ns, idx, d) ==
    [ns EXCEPT ![idx] = [id |-> Get(ns[idx], "id"), title |-> Get(d, "title"),
                         content |-> Get(d, "content")]]
\* POST /notes/:id/edit: notes[idx] = { ...notes[idx], ...data }
WebEdit(ns, idx, d) == MergeAt(ns, idx, d)
\* DELETE /api/notes/:id: notes.splice(idx, 1)
ApiDelete(ns, idx) == Splice(ns, idx)
\* POST /notes/:id/delete: notes.splice(idx, 1)
WebDelete(ns, idx) == Splice(ns, idx)

(***************************************************************************)
(* Responses.  payload is the JSON text the body was made from (for a page *)
(* the notes interpolated into it); kind names the body.                   *)
(***************************************************************************)
Response(status, ctype, kind, payload, location) ==
    [status |-> status, ctype |-> ctype, kind |-> kind,
     payload |-> payload, location |-> location]
NoResponse == Response(0, "", "", <<>>, <<>>)
\* res.writeHead(s, { 'Content-Type': 'application/json' }); res.end(JSON.stringify(v))
JsonResponse(status, kind, values) ==
    Response(status, "application/json", kind, JSONStringify(values), <<>>)
\* { error: 'Note not found' }
JsonNotFound == Response(404, "application/json", "error: Note not found", <<>>, <<>>)
\* res.writeHead(s, { 'Content-Type': 'text/html' }); res.end(renderLayout(title, ...))
HtmlResponse(status, kind, values) ==
    Response(status, "text/html", kind, JSONStringify(values), <<>>)
\* renderLayout('Not Found', '<div>Note not found</div>')
NoteNotFoundPage == Response(404, "text/html", "Not Found: Note not found", <<>>, <<>>)
\* renderLayout('Not Found', '<div>404 Not Found</div>')
CatchAllPage == Response(404, "text/html", "Not Found: 404 Not Found", <<>>, <<>>)
\* res.writeHead(302, { Location: ... }); res.end()
Redirect(location) == Response(302, "", "redirect", <<>>, location)

\* What the GET routes answer from the notes they read.
ApiListResponse(ns) == JsonResponse(200, "notes", ns)
WebListResponse(ns) == HtmlResponse(200, "Notes", ns)
ApiGetResponse(ns, id) ==
    IF Find(ns, id) = <<>> THEN JsonNotFound ELSE JsonResponse(200, "note", Find(ns, id))
WebViewResponse(ns, id) ==
    IF Find(ns, id) = <<>> THEN NoteNotFoundPage ELSE HtmlResponse(200, "detail", Find(ns, id))
WebEditFormResponse(ns, id) ==
    IF Find(ns, id) = <<>> THEN NoteNotFoundPage ELSE HtmlResponse(200, "Edit Note", Find(ns, id))

(***************************************************************************)
(* The requests the model draws from.                                      *)
(***************************************************************************)
Seg(word) == <<word>>
PRoot == << <<>>, <<>> >>
PApiNotes == << <<>>, Seg("api"), Seg("notes") >>
PApiNote(seg) == << <<>>, Seg("api"), Seg("notes"), seg >>
PNotesNew == << <<>>, Seg("notes"), Seg("new") >>
PNote(seg) == << <<>>, Seg("notes"), seg >>
PNoteEdit(seg) == << <<>>, Seg("notes"), seg, Seg("edit") >>
PNoteDelete(seg) == << <<>>, Seg("notes"), seg, Seg("delete") >>

Request(method, path, body) == [method |-> method, path |-> path, body |-> body]

\* {"title":"a","content":"b"}   {"title":"b"}   {"id":2}
BJsonFull == JsonBody([title |-> Str("a"), content |-> Str("b")])
BJsonTitle == JsonBody([title |-> Str("b")])
BJsonId == JsonBody([id |-> Num(2)])
\* title=a&content=b   content=a
BFormFull == FormBody([title |-> Str("a"), content |-> Str("b")])
BFormContent == FormBody([content |-> Str("a")])
\* title=b
BFormTitle == FormBody([title |-> Str("b")])
Bodies == {BJsonFull, BJsonTitle, BJsonId, BFormFull, BFormContent}

IdSegs == {<<"1">>, <<"2">>}
\* The requests that carry a body: those of the four routes that read one.
BodyRequests ==
    {Request("POST", PApiNotes, b) : b \in Bodies}
      \cup {Request("POST", PNotesNew, b) : b \in Bodies}
      \cup {Request("PUT", PApiNote(s), b) : s \in IdSegs, b \in Bodies}
      \cup {Request("POST", PNoteEdit(s), b) : s \in IdSegs, b \in Bodies}

\* Paths that match a route pattern for some method.
RoutePaths ==
    {PRoot, PApiNotes, PNotesNew}
      \cup {PApiNote(s) : s \in IdSegs} \cup {PNote(s) : s \in IdSegs}
      \cup {PNoteEdit(s) : s \in IdSegs} \cup {PNoteDelete(s) : s \in IdSegs}
\* /api/notes/01 and /notes/01 : an id written with a leading zero.
\* /api/notes/x  /api/notes/1x  /api/notes/1/  /api/notesx  /api/notes/
\* /api  /notes  /notes/x  /notes/1x/edit  /notes/1/  /notes/1/zap  /x
OddPaths ==
    {PApiNote(<<"0", "1">>), PNote(<<"0", "1">>),
     PApiNote(<<"x">>), PApiNote(<<"1", "x">>),
     << <<>>, Seg("api"), Seg("notes"), <<"1">>, <<>> >>,
     << <<>>, Seg("api"), <<"notes", "x">> >>,
     PApiNote(<<>>),
     << <<>>, Seg("api") >>, << <<>>, Seg("notes") >>,
     PNote(<<"x">>), PNoteEdit(<<"1", "x">>),
     << <<>>, Seg("notes"), <<"1">>, <<>> >>,
     << <<>>, Seg("notes"), <<"1">>, <<"z">> >>,
     << <<>>, <<"x">> >>}
Methods == {"GET", "POST", "PUT", "DELETE", "PATCH"}

\* Requests of the concurrent specification: every route on note 1, the
\* routes without an id, a body that is not JSON, and an unmatched request.
CoreRequests ==
    {Request("POST", PApiNotes, BJsonFull), Request("POST", PApiNotes, BJsonTitle),
     Request("POST", PApiNotes, BFormFull), Request("POST", PNotesNew, BFormFull),
     Request("PUT", PApiNote(<<"1">>), BJsonTitle),
     Request("POST", PNoteEdit(<<"1">>), BFormContent),
     Request("POST", PNoteEdit(<<"1">>), BFormTitle),
     Request("DELETE", PApiNote(<<"1">>), NoBody),
     Request("POST", PNoteDelete(<<"1">>), NoBody),
     Request("GET", PApiNotes, NoBody), Request("GET", PApiNote(<<"1">>), NoBody),
     Request("GET", PRoot, NoBody), Request("GET", PNote(<<"1">>), NoBody),
     Request("GET", PNoteEdit(<<"1">>), NoBody), Request("GET", PNotesNew, NoBody),
     Request("PATCH", PRoot, NoBody)}
\* Requests of the one-at-a-time specification: every method on every path.
AllRequests ==
    BodyRequests \cup {Request(m, p, NoBody) : m \in Methods, p \in RoutePaths \cup OddPaths}

(***************************************************************************)
(* State.                                                                  *)
(***************************************************************************)
\* Names of the requests that can be in flight together.
Slots == {"r1", "r2"}

VARIABLES
    fileExists,  \* whether notes.json exists
    fileText,    \* its content, a JSON text
    clock,       \* what Date.now() returns
    up,          \* whether the server process is running
    pc,          \* per request: where its handler is suspended
    req,         \* per request: method, path and body
    data,        \* per request: const data, the parsed body
    notes,       \* per request: the handler's notes array
    out,         \* per request: const note / notes[idx] / const deleted
    resp,        \* per request: the response sent, NoResponse before
    nreq,        \* history: number of requests that arrived
    created,     \* history: number of creates that responded with success
    deleted,     \* history: number of deletes that responded with success
    assigned,    \* history: the clock values creates used as ids
    gone,        \* history: ids deleted with success and not put back since
    ver,         \* history: number of writes of the file
    rv,          \* history, per request: ver when it read the file
    wv,          \* history, per request: ver after its write
    stale,         \* history, per request: ids whose delete responded while
                 \* the request was in flight
    dupSeen      \* history: some id was given to two notes

vars == <<fileExists, fileText, clock, up, pc, req, data, notes, out, resp,
          nreq, created, deleted, assigned, gone, ver, rv, wv, stale, dupSeen>>
store == <<fileExists, fileText>>
hist == <<nreq, created, deleted, assigned, gone, ver, rv, wv, stale, dupSeen>>

\* readNotes(): the parsed file, [] when the file does not exist (ENOENT).
ReadNotes(exists, text) == IF exists THEN JSONParseArray(text) ELSE <<>>
\* writeNotes(notes): the file's new content.
WriteNotes(ns) == JSONStringify(ns)

RouteOf(p) == Route(req[p].method, req[p].path)
IdOf(p) == PathId(RouteOf(p), req[p].path)
CreateRoutes == {"apiCreate", "webCreate"}
UpdateRoutes == {"apiPut", "webEdit"}
DeleteRoutes == {"apiDelete", "webDelete"}
BodyRoutes == CreateRoutes \cup UpdateRoutes
InFlight(p) == pc[p] \in {"body", "read", "write", "respond"}

Init ==
    /\ fileExists = FALSE
    /\ fileText = <<>>
    /\ clock = 1
    /\ up = TRUE
    /\ pc = [p \in Slots |-> "idle"]
    /\ req = [p \in Slots |-> Request("GET", PRoot, NoBody)]
    /\ data = [p \in Slots |-> EmptyObj]
    /\ notes = [p \in Slots |-> <<>>]
    /\ out = [p \in Slots |-> <<>>]
    /\ resp = [p \in Slots |-> NoResponse]
    /\ nreq = 0
    /\ created = 0
    /\ deleted = 0
    /\ assigned = {}
    /\ gone = {}
    /\ ver = 0
    /\ rv = [p \in Slots |-> 0]
    /\ wv = [p \in Slots |-> 0]
    /\ stale = [p \in Slots |-> {}]
    /\ dupSeen = FALSE

(***************************************************************************)
(* The handler, one action per run-to-completion piece.                    *)
(***************************************************************************)
\* The piece ends by sending a response: res.writeHead(...); res.end(...).
Finish(p, response) ==
    /\ pc' = [pc EXCEPT ![p] = "done"]
    /\ resp' = [resp EXCEPT ![p] = response]
    /\ UNCHANGED <<notes, out>>

\* The piece ends at await writeNotes(notes).
StartWrite(p, ns, o) ==
    /\ pc' = [pc EXCEPT ![p] = "write"]
    /\ notes' = [notes EXCEPT ![p] = ns]
    /\ out' = [out EXCEPT ![p] = o]
    /\ UNCHANGED resp

\* A request arrives and the handler runs to its first await: the routes
\* with a body wait for the end of the body, the other routes that use the
\* store wait for readNotes(), the form page and the catch-all respond.
Arrive(p, r) ==
    /\ up
    /\ ~InFlight(p)
    /\ nreq < MaxRequests
    /\ nreq' = nreq + 1
    /\ req' = [req EXCEPT ![p] = r]
    /\ data' = [data EXCEPT ![p] = EmptyObj]
    /\ notes' = [notes EXCEPT ![p] = <<>>]
    /\ out' = [out EXCEPT ![p] = <<>>]
    /\ rv' = [rv EXCEPT ![p] = 0]
    /\ wv' = [wv EXCEPT ![p] = 0]
    /\ stale' = [stale EXCEPT ![p] = {}]
    /\ LET route == Route(r.method, r.path) IN
         CASE route \in BodyRoutes ->
                /\ pc' = [pc EXCEPT ![p] = "body"]
                /\ resp' = [resp EXCEPT ![p] = NoResponse]
           [] route = "webNewForm" ->
                /\ pc' = [pc EXCEPT ![p] = "done"]
                /\ resp' = [resp EXCEPT ![p] = HtmlResponse(200, "New Note", <<>>)]
           [] route = "notFound" ->
                /\ pc' = [pc EXCEPT ![p] = "done"]
                /\ resp' = [resp EXCEPT ![p] = CatchAllPage]
           [] OTHER ->
                /\ pc' = [pc EXCEPT ![p] = "read"]
                /\ resp' = [resp EXCEPT ![p] = NoResponse]
    /\ UNCHANGED <<store, clock, up, created, deleted, assigned, gone, ver, dupSeen>>

\* The body has ended.  The web routes querystring.parse it.  The API
\* routes JSON.parse it inside the async 'end' callback, where a SyntaxError
\* rejects the callback's promise: the request gets no response.  Nothing
\* handles the rejection, and what the runtime then does is its policy for
\* unhandled rejections: it warns and goes on, or it ends the process, and
\* with it every request in flight.
BodyEnd(p) ==
    /\ up
    /\ pc[p] = "body"
    /\ IF RouteOf(p) \in ApiRoutes
       THEN LET parsed == JSONParseBody(req[p].body) IN
              IF parsed.ok
              THEN /\ data' = [data EXCEPT ![p] = parsed.val]
                   /\ pc' = [pc EXCEPT ![p] = "read"]
                   /\ UNCHANGED up
              ELSE /\ UNCHANGED data
                   /\ \/ /\ pc' = [pc EXCEPT ![p] = "faulted"]
                         /\ UNCHANGED up
                      \/ /\ up' = FALSE
                         /\ pc' = [q \in Slots |->
                                     IF q = p THEN "faulted"
                                     ELSE IF InFlight(q) THEN "aborted" ELSE pc[q]]
       ELSE /\ data' = [data EXCEPT ![p] = QueryStringParse(req[p].body)]
            /\ pc' = [pc EXCEPT ![p] = "read"]
            /\ UNCHANGED up
    /\ UNCHANGED <<store, clock, req, notes, out, resp, hist>>

\* readNotes() has resolved; the handler runs on to its response or to
\* await writeNotes(notes).
ReadDone(p) ==
    /\ up
    /\ pc[p] = "read"
    /\ LET ns == ReadNotes(fileExists, fileText)
           route == RouteOf(p)
           api == route \in ApiRoutes
       IN
         /\ CASE route = "apiList" -> Finish(p, ApiListResponse(ns))
              [] route = "webList" -> Finish(p, WebListResponse(ns))
              [] route = "apiGet" -> Finish(p, ApiGetResponse(ns, IdOf(p)))
              [] route = "webView" -> Finish(p, WebViewResponse(ns, IdOf(p)))
              [] route = "webEditForm" -> Finish(p, WebEditFormResponse(ns, IdOf(p)))
              [] route = "apiCreate" ->
                   StartWrite(p, ApiCreate(ns, clock, data[p]), <<NewNote(clock, data[p])>>)
              [] route = "webCreate" ->
                   StartWrite(p, WebCreate(ns, clock, data[p]), <<NewNote(clock, data[p])>>)
              [] route \in UpdateRoutes ->
                   LET idx == FindIndex(ns, IdOf(p))
                       merged == IF api THEN ApiPut(ns, idx, data[p])
                                 ELSE WebEdit(ns, idx, data[p])
                   IN
                     IF idx = 0
                     THEN Finish(p, IF api THEN JsonNotFound ELSE NoteNotFoundPage)
                     ELSE StartWrite(p, merged, <<merged[idx]>>)
              [] route \in DeleteRoutes ->
                   LET idx == FindIndex(ns, IdOf(p)) IN
                     IF idx = 0
                     THEN Finish(p, IF api THEN JsonNotFound ELSE NoteNotFoundPage)
                     ELSE StartWrite(p, IF api THEN ApiDelete(ns, idx) ELSE WebDelete(ns, idx),
                                     <<ns[idx]>>)
         /\ assigned' = IF route \in CreateRoutes THEN assigned \cup {clock} ELSE assigned
         /\ dupSeen' = (dupSeen \/ (route \in CreateRoutes /\ clock \in assigned))
    /\ rv' = [rv EXCEPT ![p] = ver]
    /\ UNCHANGED <<store, clock, up, req, data, nreq, created, deleted, gone, ver, wv, stale>>

\* fs.writeFile has replaced the content of the file.
WriteDone(p) ==
    /\ up
    /\ pc[p] = "write"
    /\ fileExists' = TRUE
    /\ fileText' = WriteNotes(notes[p])
    /\ pc' = [pc EXCEPT ![p] = "respond"]
    /\ ver' = ver + 1
    /\ wv' = [wv EXCEPT ![p] = ver + 1]
    /\ gone' = IF RouteOf(p) \in CreateRoutes \cup UpdateRoutes
               THEN gone \ ({Get(out[p][1], "id")} \ stale[p])
               ELSE gone
    /\ dupSeen' = (dupSeen \/ \E i, j \in 1..Len(notes[p]) :
                                i # j /\ Get(notes[p][i], "id") = Get(notes[p][j], "id"))
    /\ UNCHANGED <<clock, up, req, data, notes, out, resp, nreq, created, deleted,
                   assigned, rv, stale>>

\* await writeNotes(notes) has resolved; the handler sends the response.
Respond(p) ==
    /\ up
    /\ pc[p] = "respond"
    /\ pc' = [pc EXCEPT ![p] = "done"]
    /\ LET route == RouteOf(p) IN
         /\ resp' = [resp EXCEPT ![p] =
              CASE route = "apiCreate" -> JsonResponse(201, "note", out[p])
                [] route = "webCreate" -> Redirect(<<"/">>)
                [] route = "apiPut" -> JsonResponse(200, "note", out[p])
                [] route = "webEdit" -> Redirect(<<"/notes/", IdOf(p)>>)
                [] route = "apiDelete" -> JsonResponse(200, "note", out[p])
                [] route = "webDelete" -> Redirect(<<"/">>)]
         /\ created' = IF route \in CreateRoutes THEN created + 1 ELSE created
         /\ deleted' = IF route \in DeleteRoutes THEN deleted + 1 ELSE deleted
         /\ gone' = IF route \in DeleteRoutes THEN gone \cup {IdOf(p)} ELSE gone
         /\ stale' = [q \in Slots |->
                     IF route \in DeleteRoutes /\ q # p /\ InFlight(q)
                     THEN stale[q] \cup {IdOf(p)} ELSE stale[q]]
    /\ UNCHANGED <<store, clock, up, req, data, notes, out, nreq, assigned, ver, rv, wv,
                   dupSeen>>

\* A millisecond passes.
Tick ==
    /\ clock < MaxClock
    /\ clock' = clock + 1
    /\ UNCHANGED <<store, up, pc, req, data, notes, out, resp, hist>>

(***************************************************************************)
(* Spec: requests overlap, each suspended handler resumes in any order.    *)
(***************************************************************************)
\* The slots are interchangeable: a request takes r1 unless r1 is in flight.
ConcArrive(r) == Arrive(IF InFlight("r1") THEN "r2" ELSE "r1", r)

Next ==
    \/ \E r \in CoreRequests : ConcArrive(r)
    \/ \E p \in Slots : BodyEnd(p)
    \/ \E p \in Slots : ReadDone(p)
    \/ \E p \in Slots : WriteDone(p)
    \/ \E p \in Slots : Respond(p)
    \/ Tick

Spec == Init /\ [][Next]_vars

(***************************************************************************)
(* SeqSpec: requests run one at a time; a request arrives only when the    *)
(* one before it has ended.                                                *)
(***************************************************************************)
SeqArrive(r) == (\A q \in Slots : ~InFlight(q)) /\ Arrive("r1", r)

SeqNext ==
    \/ \E r \in AllRequests : SeqArrive(r)
    \/ BodyEnd("r1")
    \/ ReadDone("r1")
    \/ WriteDone("r1")
    \/ Respond("r1")
    \/ Tick

SeqSpec == Init /\ [][SeqNext]_vars

\* The event loop runs every callback that is ready, and the pending body
\* end, file read and file write of a request complete: a handler that can
\* resume does resume.
Fairness ==
    \A p \in Slots :
      /\ WF_vars(BodyEnd(p)) /\ WF_vars(ReadDone(p))
      /\ WF_vars(WriteDone(p)) /\ WF_vars(Respond(p))
FairSpec == Init /\ [][Next]_vars /\ Fairness

(***************************************************************************)
(* The properties.                                                         *)
(***************************************************************************)
\* The persisted collection, as a request that reads it now would see it.
Store == ReadNotes(fileExists, fileText)
Ids(ns) == {Get(ns[i], "id") : i \in 1..Len(ns)}
Quiet == \A q \in Slots : ~InFlight(q)
Succeeded(p) == pc[p] = "done" /\ resp[p].status \in {200, 201, 302}

\* C1: in every reachable state of the persisted collection no two notes
\* have the same id.
C1_UniqueIds ==
    \A i, j \in 1..Len(Store) : i # j => Get(Store[i], "id") # Get(Store[j], "id")

\* C2: when a create has completed and no request is in flight, GET
\* /api/notes/{id} and GET /notes/{id} for the id the create assigned return
\* a note whose title and content are the submitted ones.
C2_CreateThenFetch ==
    \A p \in Slots :
      (Succeeded(p) /\ RouteOf(p) \in CreateRoutes /\ Quiet) =>
        LET id == Get(out[p][1], "id")
            api == ApiGetResponse(Store, id)
            web == WebViewResponse(Store, id)
        IN  /\ api.status = 200 /\ web.status = 200
            /\ \A f \in {"title", "content"} :
                 /\ Get(JSONParseArray(api.payload)[1], f) = Get(data[p], f)
                 /\ Get(JSONParseArray(web.payload)[1], f) = Get(data[p], f)

\* C3: the id a create assigns is a positive integer, different from the id
\* of every note in the store at that moment and from every id an earlier
\* create assigned.
C3_FreshId ==
    [][\A p \in Slots :
         (pc[p] = "read" /\ pc'[p] = "write" /\ RouteOf(p) \in CreateRoutes) =>
           LET id == Get(out'[p][1], "id") IN
             /\ IsNumber(id)
             /\ id.num > 0
             /\ id \notin Ids(Store)
             /\ id.num \notin assigned]_vars

\* C8: in every reachable state every persisted note has exactly the fields
\* id, title and content, id a number, title and content strings.
C8_NoteShape ==
    \A i \in 1..Len(Store) :
      /\ DOMAIN Store[i] = {"id", "title", "content"}
      /\ IsNumber(Store[i].id)
      /\ IsString(Store[i].title)
      /\ IsString(Store[i].content)

\* The first position of a note with this id, 0 when there is none.
FirstWithId(ns, id) ==
    IF id \in Ids(ns)
    THEN CHOOSE i \in 1..Len(ns) :
           Get(ns[i], "id") = id /\ id \notin Ids(SubSeq(ns, 1, i - 1))
    ELSE 0

\* C4: an update of a note that is in the store sets every field the body
\* names to the body's value and leaves every other field of that note at
\* its previous value.
C4_PartialUpdate ==
    [][\A p \in Slots :
         (pc[p] = "write" /\ pc'[p] = "respond" /\ RouteOf(p) \in UpdateRoutes) =>
           LET i == FirstWithId(Store, IdOf(p))
               old == Store[i]
               new == Store'[i]
           IN  /\ i > 0
               /\ Len(Store') = Len(Store)
               /\ DOMAIN new = DOMAIN old \cup DOMAIN data[p]
               /\ \A f \in DOMAIN data[p] : new[f] = data[p][f]
               /\ \A f \in DOMAIN old \ DOMAIN data[p] : new[f] = old[f]]_vars

\* An update whose body names the title alone has succeeded; the note has
\* the body's title and still has a content.
C4_Witness ==
    \E p \in Slots :
      /\ Succeeded(p) /\ RouteOf(p) \in UpdateRoutes
      /\ DOMAIN data[p] = {"title"}
      /\ \E i \in 1..Len(Store) :
           /\ Get(Store[i], "id") = IdOf(p)
           /\ Get(Store[i], "title") = data[p].title
           /\ IsString(Get(Store[i], "content"))

\* C5: with requests one at a time, from a successful delete of id X until
\* a later request puts a note with id X in the store, GET /api/notes/X and
\* GET /notes/X answer 404 and no note with id X is in GET /api/notes or in
\* the list page.
C5_DeletedStaysGone ==
    \A x \in gone :
      Quiet =>
        /\ ApiGetResponse(Store, x).status = 404
        /\ WebViewResponse(Store, x).status = 404
        /\ x \notin Ids(JSONParseArray(ApiListResponse(Store).payload))
        /\ x \notin Ids(JSONParseArray(WebListResponse(Store).payload))

\* C6: with requests one at a time from an absent store, GET /api/notes
\* returns as many notes as creates succeeded minus deletes succeeded, and
\* the empty array while the file does not exist.
C6_ListCount ==
    Quiet =>
      /\ ApiListResponse(Store).status = 200
      /\ Len(ApiListResponse(Store).payload) = created - deleted
      /\ ~fileExists => ApiListResponse(Store).payload = <<>>
      /\ \A p \in Slots :
           (pc[p] = "done" /\ RouteOf(p) = "apiList") =>
             resp[p] = ApiListResponse(Store)

\* GET /api/notes has answered after a create and a delete succeeded.
C6_Witness ==
    \E p \in Slots :
      /\ pc[p] = "done" /\ RouteOf(p) = "apiList"
      /\ created >= 1 /\ deleted >= 1
      /\ Len(resp[p].payload) = created - deleted

\* Requests p and q both read the store before either wrote it, both wrote
\* it, q after p, and both have responded; nothing was written since.
Overlapped(p, q) ==
    /\ p # q
    /\ pc[p] = "done" /\ pc[q] = "done"
    /\ wv[p] > 0 /\ wv[q] > 0
    /\ rv[p] = rv[q]
    /\ wv[p] < wv[q]
    /\ ver = wv[q]
AsStored(note) == ParseObj(StringifyObj(note))

\* C7: requests that overlap lose updates.  Whenever two mutating requests
\* read the same store state and both write, the store after the second
\* write is the second request's array alone; of two such creates only the
\* second one's note is added.  The witness is such an execution in which
\* both responded with success.
C7_SecondWriteWins ==
    \A p, q \in Slots :
      Overlapped(p, q) =>
        /\ Store = JSONParseArray(JSONStringify(notes[q]))
        /\ (RouteOf(p) \in CreateRoutes /\ RouteOf(q) \in CreateRoutes) =>
             /\ Len(Store) = Len(notes[p])
             /\ Store[Len(Store)] = AsStored(out[q][1])

\* Two overlapping requests have both responded with success and the note
\* the first one created is not in the store.
C7_LostUpdate ==
    \E p, q \in Slots :
      /\ Overlapped(p, q)
      /\ RouteOf(p) \in CreateRoutes
      /\ Succeeded(p) /\ Succeeded(q)
      /\ \A i \in 1..Len(Store) : Store[i] # AsStored(out[p][1])

IdRoutes ==
    {"apiGet", "apiPut", "apiDelete", "webView", "webEditForm", "webEdit", "webDelete"}

\* C9: on every route that takes an id, with a well-formed body, when no
\* note in the store has that id the response is 404, a JSON error on the
\* API routes and the HTML Not Found page on the web routes.
C9_NotFound ==
    [][\A p \in Slots :
         ( /\ pc[p] = "read" /\ pc'[p] # "read"
           /\ RouteOf(p) \in IdRoutes
           /\ IdOf(p) \notin Ids(Store) ) =>
           /\ pc'[p] = "done"
           /\ resp'[p].status = 404
           /\ RouteOf(p) \in ApiRoutes =>
                /\ resp'[p].ctype = "application/json"
                /\ resp'[p].kind = "error: Note not found"
           /\ RouteOf(p) \notin ApiRoutes =>
                /\ resp'[p].ctype = "text/html"
                /\ resp'[p].kind = "Not Found: Note not found"]_vars

\* An update with a well-formed body for an id that no note has, in a store
\* that holds other notes, was answered 404.
C9_Witness ==
    \E p \in Slots :
      /\ pc[p] = "done" /\ RouteOf(p) \in UpdateRoutes
      /\ resp[p].status = 404
      /\ Len(Store) >= 1
      /\ IdOf(p) \notin Ids(Store)

\* The twelve route patterns of the contract table, as one flat list.
TableMatch(method, path) ==
    LET id3 == Len(path) >= 3 /\ IsDigits(path[3])
        id4 == Len(path) >= 4 /\ IsDigits(path[4])
    IN  \/ method \in {"GET", "POST"} /\ path = PApiNotes
        \/ method \in {"GET", "PUT", "DELETE"} /\ id4 /\ path = PApiNote(path[4])
        \/ method = "GET" /\ path = PRoot
        \/ method \in {"GET", "POST"} /\ path = PNotesNew
        \/ method = "GET" /\ id3 /\ path = PNote(path[3])
        \/ method \in {"GET", "POST"} /\ id3 /\ path = PNoteEdit(path[3])
        \/ method = "POST" /\ id3 /\ path = PNoteDelete(path[3])

\* C10: every request whose method and path match none of the twelve route
\* patterns receives the 404 HTML Not Found page of the catch-all.
C10_CatchAll ==
    \A p \in Slots :
      (pc[p] # "idle" /\ ~TableMatch(req[p].method, req[p].path)) =>
        /\ pc[p] = "done"
        /\ resp[p] = CatchAllPage

\* The catch-all answered a request under the /api/notes prefix whose id
\* segment is not all digits.
C10_Witness ==
    \E p \in Slots :
      /\ pc[p] = "done" /\ resp[p] = CatchAllPage
      /\ StartsWithApiNotes(req[p].path)
      /\ Len(req[p].path) = 4 /\ ~IsDigits(req[p].path[4])

\* C11: a POST /api/notes or PUT /api/notes/{id} whose body is not JSON gets
\* no response at all, whether or not the id is in the store: the step that
\* ends its body faults the request without touching the store, the request
\* has then neither read nor written the store, and it stays without a
\* response until another request takes its place.
C11_MalformedJson ==
    [][\A p \in Slots :
         /\ (/\ pc[p] = "body" /\ pc'[p] # "body"
             /\ RouteOf(p) \in {"apiCreate", "apiPut"}
             /\ req[p].body.fmt # "json") =>
               /\ pc'[p] = "faulted"
               /\ store' = store
         /\ pc'[p] = "faulted" =>
               /\ resp'[p] = NoResponse
               /\ rv'[p] = 0 /\ wv'[p] = 0
         /\ (pc[p] = "faulted" /\ pc'[p] # "faulted") => nreq' = nreq + 1
      ]_vars

\* A PUT with a body that is not JSON faulted while the store holds notes,
\* none of them with the id of the path.
C11_Witness ==
    \E p \in Slots :
      /\ pc[p] = "faulted" /\ RouteOf(p) = "apiPut"
      /\ req[p].body.fmt # "json"
      /\ Len(Store) > 0 /\ IdOf(p) \notin Ids(Store)

\* C12: writing back what a read returns is a no-op on the logical content
\* of the file.  In every store state the operations produce, the text
\* writeNotes makes of readNotes() spells the same notes with the same
\* fields in the same order as the file does (an absent file counts as the
\* empty array), and a read of that text returns what the first read did.
C12_ReadWriteNoOp ==
    LET ns == ReadNotes(fileExists, fileText) IN
      /\ WriteNotes(ns) = fileText
      /\ ReadNotes(TRUE, WriteNotes(ns)) = ns

\* No request is in flight and the file holds two different notes, one of
\* them without one of the three fields.
C12_Witness ==
    /\ Quiet /\ fileExists
    /\ Len(Store) >= 2 /\ Store[1] # Store[2]
    /\ \E i \in 1..Len(Store) : DOMAIN Store[i] # {"id", "title", "content"}

\* C13: when no id is ever given to two notes, an id whose delete has
\* responded with success is not in the persisted collection again unless
\* a request that arrived after that response has put a note with that id
\* there; a request that read the store before the delete wrote it does not
\* bring the note back.
C13_DeleteNotUndone ==
    ~dupSeen => \A x \in gone : x \notin Ids(Store)

\* C14: an update changes only the title and the content of the note it
\* addresses.  Whatever fields the body has, the write of an update leaves
\* the note's id and every field other than title and content as they were,
\* the set of ids in the store is the same after as before, and a fetch of
\* the path's id right after finds the updated note.
C14_UpdateKeepsId ==
    [][\A p \in Slots :
         (pc[p] = "write" /\ pc'[p] = "respond" /\ RouteOf(p) \in UpdateRoutes) =>
           LET i == FirstWithId(Store, IdOf(p)) IN
             /\ i > 0
             /\ Len(Store') = Len(Store)
             /\ Get(Store'[i], "id") = Get(Store[i], "id")
             /\ \A f \in (DOMAIN Store[i] \cup DOMAIN Store'[i]) \ {"title", "content"} :
                   Get(Store'[i], f) = Get(Store[i], f)
             /\ Ids(Store') = Ids(Store)
             /\ Find(Store', IdOf(p)) = <<Store'[i]>>
      ]_vars

\* C15: run alone, the write of a successful mutation changes one element
\* of the ordered collection.  A create appends its note at the end; an
\* update replaces, in place, the first note with the path's id; a delete
\* removes the first note with the path's id.  Every other note keeps its
\* fields and its place relative to the others.
C15_OneElement ==
    [][\A p \in Slots :
         (pc[p] = "write" /\ pc'[p] = "respond") =>
           LET n == Len(Store)
               i == FirstWithId(Store, IdOf(p))
           IN  CASE RouteOf(p) \in CreateRoutes ->
                      /\ Len(Store') = n + 1
                      /\ SubSeq(Store', 1, n) = Store
                      /\ Store'[n + 1] = AsStored(out[p][1])
                 [] RouteOf(p) \in UpdateRoutes ->
                      /\ i > 0
                      /\ Len(Store') = n
                      /\ \A j \in 1..n : j # i => Store'[j] = Store[j]
                      /\ Store'[i] = AsStored(out[p][1])
                 [] RouteOf(p) \in DeleteRoutes ->
                      /\ i > 0
                      /\ Len(Store') = n - 1
                      /\ \A j \in 1..(n - 1) :
                            Store'[j] = IF j < i THEN Store[j] ELSE Store[j + 1]
                 [] OTHER -> FALSE
      ]_vars

\* A delete removed one of two notes with different ids and has responded;
\* the other note is what the store holds.
C15_Witness ==
    \E p \in Slots :
      /\ Succeeded(p) /\ RouteOf(p) \in DeleteRoutes
      /\ Len(notes[p]) = 1 /\ Store = JSONParseArray(JSONStringify(notes[p]))
      /\ Get(Store[1], "id") # IdOf(p)

\* C16: only a successful create, update or delete writes the store.  Every
\* step that changes the file, or creates it, is the write of a request on
\* a mutating route whose method is not GET; a request that wrote is
\* answered with success; a GET request and a request answered with 404
\* (id not found, or no route matched) have written nothing.
C16_OnlyMutationsWrite ==
    [][/\ (store' # store \/ ver' # ver) =>
            \E p \in Slots :
              /\ pc[p] = "write" /\ pc'[p] = "respond"
              /\ RouteOf(p) \in CreateRoutes \cup UpdateRoutes \cup DeleteRoutes
              /\ req[p].method # "GET"
       /\ \A p \in Slots :
            /\ (pc'[p] = "done" /\ wv'[p] > 0) => resp'[p].status \in {200, 201, 302}
            /\ (pc'[p] # "idle" /\ (req'[p].method = "GET" \/ resp'[p].status = 404)) =>
                 wv'[p] = 0
      ]_vars

\* An update or delete of an id that is not there was answered with 404
\* while the backing file did not exist, and the file still does not exist.
C16_Witness ==
    \E p \in Slots :
      /\ pc[p] = "done" /\ resp[p].status = 404
      /\ RouteOf(p) \in UpdateRoutes \cup DeleteRoutes
      /\ rv[p] = 0 /\ ver = 0 /\ ~fileExists

MutatingRoutes == CreateRoutes \cup UpdateRoutes \cup DeleteRoutes
Range(s) == {s[i] : i \in 1..Len(s)}
\* The array ns has the mutation of request p: the note p created or
\* updated is in it; the note p deleted is not, unless the array p wrote
\* had an equal note still.
Contains(p, ns) ==
    LET note == AsStored(out[p][1]) IN
      IF RouteOf(p) \in DeleteRoutes
      THEN note \notin Range(ns) \/ note \in Range(JSONParseArray(JSONStringify(notes[p])))
      ELSE note \in Range(ns)

\* Every write after the write of request p was made by a request that had
\* read the store before p wrote it.
OnlyEarlierReadersWrote(p) ==
    \A v \in (wv[p] + 1)..ver : \E q \in Slots \ {p} : wv[q] = v /\ rv[q] < wv[p]

\* C17: a mutating route sends its success response only after its write
\* of the collection has completed, so a request that starts after the
\* response, with no other mutating request in flight, reads a store that
\* contains the mutation.  At the step that sends the response the write is
\* done and, when no other mutating request is in flight, the store has
\* the mutation; the one case left aside is a request that read the store
\* after this write and has changed it since.
C17_WriteBeforeSuccess ==
    [][\A p \in Slots :
         (pc[p] = "respond" /\ pc'[p] = "done") =>
           /\ wv[p] > 0
           /\ ((/\ \A q \in Slots \ {p} : ~(InFlight(q) /\ RouteOf(q) \in MutatingRoutes)
                /\ OnlyEarlierReadersWrote(p))
               => Contains(p, Store'))
      ]_vars

\* Request p has read the store and computed what it writes or answers.
Computed(p) == pc[p] \in {"write", "respond", "done"}
Found(p) == ~(pc[p] = "done" /\ resp[p].status = 404)
\* p is on an API route and q on the web route of the same operation; both
\* read the same store state, with the same title and content and nothing
\* else in the body, for the same id, at the same clock value.
SameOperation(p, q) ==
    /\ <<RouteOf(p), RouteOf(q)>> \in
          {<<"apiCreate", "webCreate">>, <<"apiPut", "webEdit">>, <<"apiDelete", "webDelete">>}
    /\ Computed(p) /\ Computed(q)
    /\ rv[p] = rv[q]
    /\ DOMAIN data[p] \subseteq {"title", "content"}
    /\ DOMAIN data[q] \subseteq {"title", "content"}
    /\ Get(data[p], "title") = Get(data[q], "title")
    /\ Get(data[p], "content") = Get(data[q], "content")
    /\ RouteOf(p) = "apiCreate" => out[p] = out[q]
    /\ RouteOf(p) # "apiCreate" => IdOf(p) = IdOf(q)

\* C18: the web route and the API route of an operation do the same to the
\* store.  From the same store state, with the same title and content (and
\* clock value), the two agree on whether the id is found and, when it is,
\* the file each of them writes is the same.
C18_WebApiSame ==
    \A p, q \in Slots :
      SameOperation(p, q) =>
        /\ Found(p) <=> Found(q)
        /\ Found(p) => WriteNotes(notes[p]) = WriteNotes(notes[q])

\* A PUT and a form edit of the same stored note, with the same title, both
\* read the same store and computed an array that differs from it.
C18_Witness ==
    \E p, q \in Slots :
      /\ SameOperation(p, q) /\ RouteOf(p) = "apiPut"
      /\ Found(p) /\ Found(q)
      /\ Len(notes[p]) >= 1
      /\ out[p] # <<>> /\ Get(out[p][1], "title") = Get(data[p], "title")
      /\ ver = rv[p] /\ WriteNotes(notes[p]) # fileText

\* The body of request p is one its route can parse.
WellFormed(p) == RouteOf(p) \in {"apiCreate", "apiPut"} => req[p].body.fmt = "json"

\* C19: every request with a well-formed body eventually receives its
\* response, given that every pending body end, file read and file write
\* completes, also when other requests run concurrently: a request in
\* flight is not left without one.
C19_EveryRequestAnswered ==
    \A p \in Slots :
      (InFlight(p) /\ WellFormed(p)) ~> (pc[p] = "done" /\ resp[p] # NoResponse)

====
